---- MODULE Spec2Model ----
(***************************************************************************)
(* A model of the phone book: the Contact entity (contact.py) with its     *)
(* change history, and the PhoneBook directory (phonebook.py) with its     *)
(* list of contacts and its audit log file.                                *)
(*                                                                         *)
(* Python strings are sequences of one-character strings; None is a value  *)
(* of its own.  The wall clock is a counter of whole seconds.              *)
(***************************************************************************)
EXTENDS Integers, Sequences, FiniteSets, TLC

VARIABLES contacts_list, audit_log, now, last

vars == <<contacts_list, audit_log, now, last>>

(***************************************************************************)
(* Bounds of the model.                                                    *)
(***************************************************************************)
MaxContacts == 3
MaxLog == 1
MaxTime == 1
MaxHistory == 2
MaxDirUpdates == 1

(***************************************************************************)
(* Strings.                                                                *)
(***************************************************************************)
None == <<"<None>">>

Empty == <<>>

\* The characters the model's strings are written in, in code point order.
CodePoints ==
    <<" ", "(", ")", "-", ".", "0", "1", "2", "3", "4", "5", "6", "7", "8",
      "9", "@", "A", "B", "X", "a", "b", "l", "o", "x">>

Digits == {"0", "1", "2", "3", "4", "5", "6", "7", "8", "9"}

Ord(ch) == CHOOSE i \in 1..Len(CodePoints) : CodePoints[i] = ch

\* str.lower() on one character, then on a string.
LowerChar(ch) ==
    CASE ch = "A" -> "a"
      [] ch = "B" -> "b"
      [] ch = "X" -> "x"
      [] OTHER -> ch

Lower(s) == [i \in 1..Len(s) |-> LowerChar(s[i])]

\* Python's truth value of an optional string: None and "" are false.
Truthy(s) == s # None /\ s # Empty

\* s < t for Python strings: lexicographic by code point.
StrLess(s, t) ==
    \E k \in 1..(Len(t)) :
        /\ \A i \in 1..(k - 1) : i <= Len(s) /\ s[i] = t[i]
        /\ \/ Len(s) = k - 1
           \/ Len(s) >= k /\ Ord(s[k]) < Ord(t[k])

PhoneOK == <<"(", "5", "5", "5", ")", " ", "1", "2", "3", "-", "4", "5", "6", "7">>

PhoneOK2 == <<"(", "5", "5", "5", ")", " ", "1", "2", "3", "-", "4", "5", "6", "8">>

PhoneBad == <<"5", "5", "5", "-", "1", "2", "3", "4">>

EmailOK == <<"a", "@", "b", ".", "x">>

EmailBad == <<"a", "@", "b">>

Al == <<"A", "l">>

al == <<"a", "l">>

Bo == <<"B", "o">>

Ba == <<"B", "a">>

ab == <<"a", "b">>

X == <<"X">>

(***************************************************************************)
(* contact.py: the Contact entity.                                         *)
(***************************************************************************)
Values(c) ==
    [first_name |-> c.first_name, last_name |-> c.last_name,
     phone_number |-> c.phone_number, email |-> c.email,
     address |-> c.address]

\* Contact.__init__: the clock is read twice, t1 for time_created and then
\* t2 for time_updated.  g_calls and g_dir count, for the properties, the
\* calls of Contact.update and the successful PhoneBook.update_contact calls
\* the contact has seen; g_init keeps the values it was constructed with.
ContactInit(first_name, last_name, phone_number, email, address, t1, t2) ==
    [first_name |-> first_name, last_name |-> last_name,
     phone_number |-> phone_number, email |-> email, address |-> address,
     time_created |-> t1, time_updated |-> t2,
     update_history |-> <<>>,
     g_calls |-> 0, g_dir |-> 0,
     g_init |-> [first_name |-> first_name, last_name |-> last_name,
                 phone_number |-> phone_number, email |-> email,
                 address |-> address]]

\* The conditional assignments of Contact.update: an argument that is None
\* or empty leaves its field alone.
ApplyArgs(c, first_name, last_name, phone_number, email, address) ==
    [c EXCEPT
       !.first_name = IF Truthy(first_name) THEN first_name ELSE @,
       !.last_name = IF Truthy(last_name) THEN last_name ELSE @,
       !.phone_number = IF Truthy(phone_number) THEN phone_number ELSE @,
       !.email = IF Truthy(email) THEN email ELSE @,
       !.address = IF Truthy(address) THEN address ELSE @]

\* A Contact.update whose record keeps the old snapshot as the new one.
ContactUpdateStaleSnapshot(c, first_name, last_name, phone_number, email, address, t) ==
    [ApplyArgs(c, first_name, last_name, phone_number, email, address) EXCEPT
       !.time_updated = t,
       !.update_history =
           Append(@, [time_updated |-> t, old_values |-> Values(c),
                      new_values |-> Values(c)]),
       !.g_calls = @ + 1]

\* Contact.update at clock reading t.
ContactUpdate(c, first_name, last_name, phone_number, email, address, t) ==
    LET old_values == Values(c)
        c1 == ApplyArgs(c, first_name, last_name, phone_number, email, address)
    IN  [c1 EXCEPT
           !.time_updated = t,
           !.update_history =
               Append(@, [time_updated |-> t, old_values |-> old_values,
                          new_values |-> Values(c1)]),
           !.g_calls = @ + 1]

\* Contact.__eq__: the five user-supplied fields only.
ContactEq(a, b) ==
    /\ a.first_name = b.first_name
    /\ a.last_name = b.last_name
    /\ a.phone_number = b.phone_number
    /\ a.email = b.email
    /\ a.address = b.address

(***************************************************************************)
(* phonebook.py: pure helpers of the PhoneBook operations.                 *)
(***************************************************************************)
\* log_operation: open(audit_log_file, 'a') creates the file when it is
\* absent and appends one line.  A line is modelled by its description
\* without the timestamp prefix and the names it interpolates.
log_operation(log, operation) ==
    [exists |-> TRUE, lines |-> Append(log.lines, operation)]

\* f"{contact.first_name} {contact.last_name}"
FullName(c) == c.first_name \o <<" ">> \o c.last_name

RemoveAt(list, i) == SubSeq(list, 1, i - 1) \o SubSeq(list, i + 1, Len(list))

\* A scan that lowers the input only.
FindByNameCaseSensitive(list, full_name) ==
    LET hits == {i \in 1..Len(list) : FullName(list[i]) = Lower(full_name)}
    IN  IF hits = {} THEN 0 ELSE CHOOSE i \in hits : \A j \in hits : i <= j

\* The scan of delete_contact: the index of the first contact whose lowered
\* full name is the lowered input, 0 when the loop ends without a break.
FindByName(list, full_name) ==
    LET hits == {i \in 1..Len(list) : Lower(FullName(list[i])) = Lower(full_name)}
    IN  IF hits = {} THEN 0 ELSE CHOOSE i \in hits : \A j \in hits : i <= j

\* A search that ends on the last equal element.
IndexOfLast(list, c) ==
    LET hits == {i \in 1..Len(list) : ContactEq(list[i], c)}
    IN  IF hits = {} THEN 0 ELSE CHOOSE i \in hits : \A j \in hits : i >= j

\* list.index under ==: the first element equal (Contact.__eq__) to c, or 0.
IndexOf(list, c) ==
    LET hits == {i \in 1..Len(list) : ContactEq(list[i], c)}
    IN  IF hits = {} THEN 0 ELSE CHOOSE i \in hits : \A j \in hits : i <= j

\* A remove that drops every element equal to c.
ListRemoveAll(list, c) == SelectSeq(list, LAMBDA x : ~ContactEq(x, c))

\* list.remove(c): drops the first element equal to c (ValueError when
\* there is none: the callers test IndexOf first).
ListRemove(list, c) == RemoveAt(list, IndexOf(list, c))

\* re.fullmatch(r"\(\d{3}\) \d{3}-\d{4}", phone) is not None
is_valid_phone(phone) ==
    /\ Len(phone) = 14
    /\ phone[1] = "(" /\ phone[5] = ")" /\ phone[6] = " " /\ phone[10] = "-"
    /\ \A i \in {2, 3, 4, 7, 8, 9, 11, 12, 13, 14} : phone[i] \in Digits

\* re.fullmatch(r".+@.+\..+", email) is not None or not email
is_valid_email(email) ==
    \/ \E i, j \in 1..Len(email) :
          /\ email[i] = "@" /\ email[j] = "."
          /\ 2 <= i /\ i + 2 <= j /\ j + 1 <= Len(email)
    \/ email = Empty

\* A validation that forgets the email.
ValidatePhoneOnly(phone_number, email) ==
    IF Truthy(phone_number) /\ ~is_valid_phone(phone_number)
    THEN "invalid_phone"
    ELSE "ok"

\* The two checks at the head of update_contact, in their order.
Validate(phone_number, email) ==
    IF Truthy(phone_number) /\ ~is_valid_phone(phone_number)
    THEN "invalid_phone"
    ELSE IF Truthy(email) /\ ~is_valid_email(email)
    THEN "invalid_email"
    ELSE "ok"

\* One csv row to the Contact the batch operations build from it: the
\* optional columns are None when the row is short.
RowContact(row, t1, t2) ==
    ContactInit(row[1], row[2], row[3],
                IF Len(row) > 3 THEN row[4] ELSE None,
                IF Len(row) > 4 THEN row[5] ELSE None, t1, t2)

\* An import that skips a row the list already holds.
RECURSIVE BatchAddDedupe(_, _, _)
BatchAddDedupe(list, rows, times) ==
    IF rows = <<>> THEN list
    ELSE LET contact == RowContact(Head(rows), times[1], times[2])
         IN  BatchAddDedupe(IF \E k \in 1..Len(list) : ContactEq(list[k], contact)
                            THEN list ELSE Append(list, contact),
                            Tail(rows), Tail(Tail(times)))

\* The rows of batch_add_contacts appended in order; times[2k-1], times[2k]
\* are the two clock readings of the k-th constructor.
RECURSIVE BatchAdd(_, _, _)
BatchAdd(list, rows, times) ==
    IF rows = <<>> THEN list
    ELSE BatchAdd(Append(list, RowContact(Head(rows), times[1], times[2])),
                  Tail(rows), Tail(Tail(times)))

\* The loop of batch_delete_contacts: the list after the rows, and per row
\* whether the remove succeeded (TRUE) or ValueError was caught (FALSE).
RECURSIVE BatchDelete(_, _, _, _)
BatchDelete(list, rows, found, t) ==
    IF rows = <<>> THEN [list |-> list, found |-> found]
    ELSE LET contact == RowContact(Head(rows), t, t)
         IN  IF IndexOf(list, contact) # 0
             THEN BatchDelete(ListRemove(list, contact), Tail(rows),
                              Append(found, TRUE), t)
             ELSE BatchDelete(list, Tail(rows), Append(found, FALSE), t)

\* The assignments of update_contact after validation (the method writes
\* the fields itself).
UpdateFields(c, first_name, last_name, phone_number, email, address) ==
    [c EXCEPT
       !.first_name = IF Truthy(first_name) THEN first_name ELSE @,
       !.last_name = IF Truthy(last_name) THEN last_name ELSE @,
       !.phone_number = IF Truthy(phone_number) THEN phone_number ELSE @,
       !.email = IF Truthy(email) THEN email ELSE @,
       !.address = IF Truthy(address) THEN address ELSE @,
       !.g_dir = @ + 1]

\* An insertion that goes before the elements of equal key.
InsertSortedBeforeEqual(acc, x) ==
    LET p == Cardinality({i \in 1..Len(acc) : StrLess(acc[i].key, x.key)})
    IN  SubSeq(acc, 1, p) \o <<x>> \o SubSeq(acc, p + 1, Len(acc))

\* list.sort(key=...) is stable: insertion of each element after every
\* element whose key is not greater.
InsertSorted(acc, x) ==
    LET p == Cardinality({i \in 1..Len(acc) : ~StrLess(x.key, acc[i].key)})
    IN  SubSeq(acc, 1, p) \o <<x>> \o SubSeq(acc, p + 1, Len(acc))

RECURSIVE StableSort(_)
StableSort(pairs) ==
    IF pairs = <<>> THEN <<>>
    ELSE InsertSorted(StableSort(SubSeq(pairs, 1, Len(pairs) - 1)),
                      pairs[Len(pairs)])

\* key=lambda x: x.last_name
SortAlphabetical(list) ==
    LET sorted == StableSort([i \in 1..Len(list) |->
                                [key |-> list[i].last_name, val |-> list[i]]])
    IN  [i \in 1..Len(list) |-> sorted[i].val]

\* key=lambda x: x.last_name[0], defined when no last name is empty.
SortGroup(list) ==
    LET sorted == StableSort([i \in 1..Len(list) |->
                                [key |-> <<list[i].last_name[1]>>, val |-> list[i]]])
    IN  [i \in 1..Len(list) |-> sorted[i].val]

\* The regular expressions of the model: literal characters, "." and
\* groups "(" ... ")".  re.compile fails on unbalanced parentheses.
RECURSIVE Depths(_, _)
Depths(pattern, d) ==
    IF pattern = <<>> THEN <<d>>
    ELSE <<d>> \o Depths(Tail(pattern),
                         CASE Head(pattern) = "(" -> d + 1
                           [] Head(pattern) = ")" -> d - 1
                           [] OTHER -> d)

re_compiles(pattern) ==
    LET ds == Depths(pattern, 0)
    IN  /\ \A i \in 1..Len(ds) : ds[i] >= 0
        /\ ds[Len(ds)] = 0

\* A group without alternation or repetition matches what its body matches.
Atoms(pattern) == SelectSeq(pattern, LAMBDA ch : ch \notin {"(", ")"})

\* re.search(pattern, s) is not None, for a pattern that compiles.
re_search(pattern, s) ==
    LET atoms == Atoms(pattern)
    IN  \E off \in 0..(Len(s) - Len(atoms)) :
            \A k \in 1..Len(atoms) : atoms[k] = "." \/ atoms[k] = s[off + k]

NoDate == -1

\* A condition that filters by date as soon as one bound is given.
SearchMatchesEitherBound(c, search_string, start_date, end_date) ==
    /\ \/ re_search(search_string, Lower(c.first_name))
       \/ re_search(search_string, Lower(c.last_name))
       \/ re_search(search_string, Lower(FullName(c)))
       \/ re_search(search_string, c.phone_number)
    /\ IF start_date # NoDate \/ end_date # NoDate
       THEN start_date <= c.time_created /\ c.time_created <= end_date
       ELSE TRUE

\* The condition of search_contacts for one contact.
SearchMatches(c, search_string, start_date, end_date) ==
    /\ \/ re_search(search_string, Lower(c.first_name))
       \/ re_search(search_string, Lower(c.last_name))
       \/ re_search(search_string, Lower(FullName(c)))
       \/ re_search(search_string, c.phone_number)
    /\ IF start_date # NoDate /\ end_date # NoDate
       THEN start_date <= c.time_created /\ c.time_created <= end_date
       ELSE TRUE

SearchResult(list, search_string, start_date, end_date) ==
    SelectSeq(list, LAMBDA c : SearchMatches(c, search_string, start_date, end_date))

(***************************************************************************)
(* The state.  last describes the latest call for the properties: the      *)
(* operation, how it ended ("raised": an exception left the method), the   *)
(* contact list and the audit log before it, its arguments and what it     *)
(* returned or printed.                                                    *)
(***************************************************************************)
Call(op, outcome, arg, result) ==
    [op |-> op, outcome |-> outcome, pre |-> contacts_list,
     prelog |-> audit_log, arg |-> arg, result |-> result]

\* PhoneBook.__init__: no contacts; the audit log file is not touched, so
\* it is there or not as an earlier run left it.
Init ==
    /\ contacts_list = <<>>
    /\ audit_log \in {[exists |-> e, lines |-> <<>>] : e \in BOOLEAN}
    /\ now = 0
    /\ last = [op |-> "init", outcome |-> "ok", pre |-> <<>>,
               prelog |-> audit_log, arg |-> <<>>, result |-> <<>>]

\* The wall clock passes a second boundary.
Tick ==
    /\ now < MaxTime
    /\ now' = now + 1
    /\ UNCHANGED <<contacts_list, audit_log, last>>

\* The modelled audit log file holds up to n lines: the calls that may
\* write to it wait for clear_audit_log when it is full.
LogRoom(n) == Len(audit_log.lines) < n

\* Contact(...) followed by PhoneBook.add_contact(contact); t2 is the
\* constructor's second clock reading.
add_contact(f, t2) ==
    LET contact == ContactInit(f[1], f[2], f[3], f[4], f[5], now, t2)
    IN  /\ Len(contacts_list) < MaxContacts
        /\ contacts_list' = Append(contacts_list, contact)
        /\ audit_log' = log_operation(audit_log, "Added contact")
        /\ now' = t2
        /\ last' = Call("add", "ok", contact, <<>>)

\* PhoneBook.delete_contact(full_name).
delete_contact(full_name) ==
    LET i == FindByName(contacts_list, full_name)
    IN  /\ IF i # 0
           THEN /\ contacts_list' = ListRemove(contacts_list, contacts_list[i])
                /\ audit_log' = log_operation(audit_log, "Deleted contact")
                /\ last' = Call("delete", "ok", full_name, <<>>)
           ELSE /\ contacts_list' = contacts_list
                /\ audit_log' = log_operation(audit_log, "Failed to delete contact")
                /\ last' = Call("delete", "not_found", full_name, <<>>)
        /\ UNCHANGED now

\* PhoneBook.batch_add_contacts(filename): exists says whether the file is
\* under data/, rows are its records after the header.
batch_add_contacts(exists, rows, times) ==
    /\ Len(contacts_list) + Len(rows) <= MaxContacts
    /\ IF exists
       THEN /\ contacts_list' = BatchAdd(contacts_list, rows, times)
            /\ audit_log' = log_operation(audit_log, "Batch added contacts")
            /\ now' = IF rows = <<>> THEN now ELSE times[Len(times)]
            /\ last' = Call("batch_add", "ok", rows, <<>>)
       ELSE /\ UNCHANGED <<contacts_list, audit_log, now>>
            /\ last' = Call("batch_add", "no_file", rows, <<>>)

\* PhoneBook.batch_delete_contacts(filename).
batch_delete_contacts(exists, rows) ==
    /\ IF exists
       THEN LET r == BatchDelete(contacts_list, rows, <<>>, now)
            IN  /\ contacts_list' = r.list
                /\ audit_log' = log_operation(audit_log, "Batch deleted contacts")
                /\ last' = Call("batch_delete", "ok", rows, r.found)
       ELSE /\ UNCHANGED <<contacts_list, audit_log>>
            /\ last' = Call("batch_delete", "no_file", rows, <<>>)
    /\ UNCHANGED now

\* PhoneBook.update_contact(contact, ...) on the i-th contact of the list.
update_contact(i, a) ==
    LET contact == contacts_list[i]
        verdict == Validate(a[3], a[4])
    IN  /\ contact.g_dir < MaxDirUpdates
        /\ IF verdict # "ok"
           THEN /\ UNCHANGED <<contacts_list, audit_log>>
                /\ last' = Call("update", verdict, <<i, a>>, <<>>)
           ELSE /\ contacts_list' =
                       [contacts_list EXCEPT
                          ![i] = UpdateFields(contact, a[1], a[2], a[3], a[4], a[5])]
                /\ audit_log' = log_operation(audit_log, "Updated contact")
                /\ last' = Call("update", "ok", <<i, a>>, <<>>)
        /\ UNCHANGED now

\* Contact.update(...) called on the i-th contact of the list.
contact_update(i, a) ==
    /\ Len(contacts_list[i].update_history) < MaxHistory
    /\ contacts_list' =
           [contacts_list EXCEPT
              ![i] = ContactUpdate(@, a[1], a[2], a[3], a[4], a[5], now)]
    /\ last' = Call("Contact.update", "ok", <<i, a>>, <<>>)
    /\ UNCHANGED <<audit_log, now>>

\* PhoneBook.search_contacts(search_string, start_date, end_date): the
\* pattern is compiled when the first contact is tested.
search_contacts(search_string, start_date, end_date) ==
    LET q == Lower(search_string)
    IN  /\ IF contacts_list # <<>> /\ ~re_compiles(q)
           THEN /\ UNCHANGED audit_log
                /\ last' = Call("search", "raised",
                                <<search_string, start_date, end_date>>, <<>>)
           ELSE /\ audit_log' = log_operation(audit_log, "Searched for contacts")
                /\ last' = Call("search", "ok",
                                <<search_string, start_date, end_date>>,
                                SearchResult(contacts_list, q, start_date, end_date))
        /\ UNCHANGED <<contacts_list, now>>

\* PhoneBook.sort_contacts(sort_type): x.last_name[0] raises IndexError on
\* an empty last name, and list.sort then leaves the list as it was.
sort_contacts(sort_type) ==
    /\ IF sort_type = "alphabetical"
       THEN /\ contacts_list' = SortAlphabetical(contacts_list)
            /\ audit_log' = log_operation(audit_log, "Sorted contacts alphabetically")
            /\ last' = Call("sort", "ok", sort_type, <<>>)
       ELSE IF sort_type = "group"
       THEN IF \E i \in 1..Len(contacts_list) : contacts_list[i].last_name = Empty
            THEN /\ UNCHANGED <<contacts_list, audit_log>>
                 /\ last' = Call("sort", "raised", sort_type, <<>>)
            ELSE /\ contacts_list' = SortGroup(contacts_list)
                 /\ audit_log' = log_operation(audit_log, "Grouped contacts")
                 /\ last' = Call("sort", "ok", sort_type, <<>>)
       ELSE /\ UNCHANGED contacts_list
            /\ audit_log' = log_operation(audit_log, "Invalid sort type")
            /\ last' = Call("sort", "invalid_mode", sort_type, <<>>)
    /\ UNCHANGED now

\* PhoneBook.view_audit_log(): open(..., 'r') raises FileNotFoundError when
\* no line was ever logged and no earlier run left the file.
view_audit_log ==
    /\ last' = IF audit_log.exists
               THEN Call("view_audit_log", "ok", <<>>, audit_log.lines)
               ELSE Call("view_audit_log", "raised", <<>>, <<>>)
    /\ UNCHANGED <<contacts_list, audit_log, now>>

\* PhoneBook.clear_audit_log().
clear_audit_log ==
    /\ audit_log' = [exists |-> TRUE, lines |-> <<>>]
    /\ last' = Call("clear_audit_log", "ok", <<>>, <<>>)
    /\ UNCHANGED <<contacts_list, now>>

(***************************************************************************)
(* The inputs the calls are made with.                                     *)
(***************************************************************************)
MaxRows == 2

AddInputs ==
    {<<Al, Bo, PhoneOK, Empty, Empty>>,
     <<al, Bo, PhoneOK2, EmailOK, X>>,
     <<Al, Ba, PhoneOK, None, None>>}

\* Well-formed csv rows of 3, 4 and 5 columns; no column is validated.
Rows ==
    {<<Al, Bo, PhoneOK>>,
     <<Al, Bo, PhoneOK, Empty, Empty>>,
     <<ab, Empty, PhoneBad, EmailBad>>}

RowLists == UNION {[1..n -> Rows] : n \in 0..MaxRows}

\* The clock readings n constructor reads in a row can make up to hi.
Clocks(n, hi) ==
    {ts \in [1..n -> now..hi] : \A i \in 1..(n - 1) : ts[i] <= ts[i + 1]}

UpdateInputs ==
    {<<None, None, None, None, None>>,
     <<Empty, Empty, Empty, Empty, Empty>>,
     <<al, None, None, None, None>>,
     <<None, Ba, PhoneOK2, EmailOK, X>>,
     <<al, None, PhoneBad, None, None>>,
     <<al, None, PhoneOK2, EmailBad, None>>}

DirUpdateInputs ==
    {<<None, Ba, None, Empty, None>>,
     <<al, None, PhoneBad, None, None>>,
     <<al, None, PhoneOK2, EmailBad, None>>}

DeleteInputs == {al \o <<" ">> \o Bo, Al \o <<" ">> \o Ba, ab \o <<" ">>}

SearchInputs == {Empty, al, <<"(">>, <<"(", "5", "5", "5", ")">>, <<"b", ".">>}

DateInputs == {<<NoDate, NoDate>>, <<0, 0>>, <<1, NoDate>>}

SortInputs == {"alphabetical", "group", "name"}

\* The directory within one second of the clock: every PhoneBook operation.
Next ==
    \/ /\ LogRoom(MaxLog)
       /\ \/ \E f \in AddInputs : add_contact(f, now)
          \/ \E n \in DeleteInputs : delete_contact(n)
          \/ \E e \in BOOLEAN, rows \in RowLists :
                \E ts \in Clocks(2 * Len(rows), now) : batch_add_contacts(e, rows, ts)
          \/ \E e \in BOOLEAN, rows \in RowLists : batch_delete_contacts(e, rows)
          \/ \E i \in 1..Len(contacts_list), a \in DirUpdateInputs : update_contact(i, a)
          \/ \E q \in SearchInputs, d \in DateInputs : search_contacts(q, d[1], d[2])
          \/ \E m \in SortInputs : sort_contacts(m)
    \/ view_audit_log
    \/ clear_audit_log

Spec == Init /\ [][Next]_vars

\* One contact under a running clock: its construction and both ways of
\* updating it.
NextContact ==
    \/ Tick
    \/ /\ LogRoom(MaxLog)
       /\ \/ /\ contacts_list = <<>>
             /\ \E f \in AddInputs, t2 \in now..MaxTime : add_contact(f, t2)
          \/ \E i \in 1..Len(contacts_list), a \in UpdateInputs : update_contact(i, a)
    \/ \E i \in 1..Len(contacts_list), a \in UpdateInputs : contact_update(i, a)
    \/ clear_audit_log

SpecContact == Init /\ [][NextContact]_vars

\* The directory under a running clock, for the operations that remove
\* contacts: equal contacts made at different seconds stay distinguishable,
\* and the log has room for two calls in a row.
RemoveAddInputs ==
    {<<Al, Bo, PhoneOK, Empty, Empty>>,
     <<al, Bo, PhoneOK, None, None>>}

RemoveRows ==
    {<<Al, Bo, PhoneOK>>,
     <<Al, Bo, PhoneOK, Empty, Empty>>}

RemoveRowLists == UNION {[1..n -> RemoveRows] : n \in 0..MaxRows}

RemoveUpdateInputs == {<<Al, None, None, Empty, None>>}

RemoveDeleteInputs == {Al \o <<" ">> \o Lower(Bo), X}

NextRemove ==
    \/ Tick
    \/ /\ LogRoom(MaxLog + 1)
       /\ \/ \E f \in RemoveAddInputs, t2 \in now..MaxTime : add_contact(f, t2)
          \/ \E n \in RemoveDeleteInputs : delete_contact(n)
          \/ \E e \in BOOLEAN, rows \in RemoveRowLists :
                \E ts \in Clocks(2 * Len(rows), now) : batch_add_contacts(e, rows, ts)
          \/ \E e \in BOOLEAN, rows \in RemoveRowLists : batch_delete_contacts(e, rows)
          \/ \E i \in 1..Len(contacts_list), a \in RemoveUpdateInputs : update_contact(i, a)
    \/ clear_audit_log

SpecRemove == Init /\ [][NextRemove]_vars

(***************************************************************************)
(* The properties.                                                         *)
(***************************************************************************)
DirectoryOps ==
    {"add", "delete", "batch_add", "batch_delete", "update", "search", "sort"}

\* C1: every Directory operation that completes - add, delete, batch_import,
\* batch_delete, update, search, sort - has appended exactly one line to the
\* audit log, whether it succeeded or failed (an update that fails
\* validation, a sort with an invalid mode and a batch call whose file is
\* absent included).
C1_EveryOperationLogsOneLine ==
    (last.op \in DirectoryOps /\ last.outcome # "raised")
        => Len(audit_log.lines) = Len(last.prelog.lines) + 1

\* C2: a successful Directory update goes through Contact.update, so each
\* contact's history has one record per successful update applied to it
\* since construction, and updated_at is the time of the latest one.
C2_HistoryCountsSuccessfulUpdates ==
    \A i \in 1..Len(contacts_list) :
        Len(contacts_list[i].update_history)
            = contacts_list[i].g_calls + contacts_list[i].g_dir

\* C4: updated_at is the timestamp of the last history entry, or created_at
\* when the history is empty (so updated_at = created_at right after
\* construction, whatever the clock reads).
C4_UpdatedAtTracksHistory ==
    \A i \in 1..Len(contacts_list) :
        LET c == contacts_list[i]
            h == c.update_history
        IN  c.time_updated =
                IF h = <<>> THEN c.time_created ELSE h[Len(h)].time_updated

\* C3: an update given a non-empty phone number that does not match
\* (###) ###-#### or a non-empty email that does not match the email pattern
\* is aborted: the contact's five fields, its updated_at and its history are
\* as before the call, whatever else was supplied, and no success line is
\* written to the audit log.
C3_InvalidUpdateAborts ==
    last.op = "update" =>
        LET a == last.arg[2]
        IN  (\/ Truthy(a[3]) /\ ~is_valid_phone(a[3])
             \/ Truthy(a[4]) /\ ~is_valid_email(a[4]))
                => /\ contacts_list = last.pre
                   /\ ~(/\ Len(audit_log.lines) > Len(last.prelog.lines)
                        /\ audit_log.lines[Len(audit_log.lines)] = "Updated contact")

\* An update with a valid first name and phone number and a malformed email
\* has been refused, on a contact that has a history.
C3_Witness ==
    /\ last.op = "update"
    /\ last.outcome = "invalid_email"
    /\ Truthy(last.arg[2][1])
    /\ is_valid_phone(last.arg[2][3])
    /\ contacts_list[last.arg[1]].update_history # <<>>

\* C5: every call of Contact.update, one with all arguments omitted or empty
\* included, appends exactly one history record whose old snapshot is the
\* five fields before the call and whose new snapshot is the five fields
\* after it; an omitted or empty argument keeps the field and a non-empty
\* one replaces it.  So the history has one record per call, and nothing
\* else touches the records.
C5_UpdateAppendsOneRecord ==
    /\ \A i \in 1..Len(contacts_list) :
           Len(contacts_list[i].update_history) = contacts_list[i].g_calls
    /\ last.op = "Contact.update" =>
           LET i == last.arg[1]
               a == last.arg[2]
               before == last.pre[i]
               after == contacts_list[i]
               h == after.update_history
           IN  /\ Len(h) = Len(before.update_history) + 1
               /\ SubSeq(h, 1, Len(h) - 1) = before.update_history
               /\ h[Len(h)].old_values = Values(before)
               /\ h[Len(h)].new_values = Values(after)
               /\ after.first_name = IF Truthy(a[1]) THEN a[1] ELSE before.first_name
               /\ after.last_name = IF Truthy(a[2]) THEN a[2] ELSE before.last_name
               /\ after.phone_number = IF Truthy(a[3]) THEN a[3] ELSE before.phone_number
               /\ after.email = IF Truthy(a[4]) THEN a[4] ELSE before.email
               /\ after.address = IF Truthy(a[5]) THEN a[5] ELSE before.address
    /\ last.op = "update" =>
           contacts_list[last.arg[1]].update_history
               = last.pre[last.arg[1]].update_history

\* A second Contact.update call, with every argument omitted, has appended
\* the second record, after a first call that changed a field.
C5_Witness ==
    /\ last.op = "Contact.update"
    /\ \A k \in 1..5 : last.arg[2][k] = None
    /\ LET h == contacts_list[last.arg[1]].update_history
       IN  /\ Len(h) = 2
           /\ h[1].old_values # h[1].new_values
           /\ h[2].old_values = h[2].new_values

\* The entries of a list equal to c, the rows that name c, and the place of
\* the k-th entry among the entries equal to it.
CountEq(list, c) == Cardinality({k \in 1..Len(list) : ContactEq(list[k], c)})

RowEq(row, c) == ContactEq(RowContact(row, 0, 0), c)

CountRows(rows, c) == Cardinality({r \in 1..Len(rows) : RowEq(rows[r], c)})

Rank(list, k) == Cardinality({j \in 1..k : ContactEq(list[j], list[k])})

\* The list without its entries at the places in gone, the others in order.
Without(list, gone) ==
    LET keep == (1..Len(list)) \ gone
    IN  [n \in 1..Cardinality(keep) |->
            list[CHOOSE k \in keep : Cardinality({j \in keep : j <= k}) = n]]

HasDuplicates(list) ==
    \E i, j \in 1..Len(list) : i < j /\ ContactEq(list[i], list[j])

\* C6: delete(full_name) removes exactly one contact, the first in list
\* order whose "first last" equals full_name ignoring case, and leaves the
\* others and their order as they were; when none matches the list is
\* unchanged and a failure line, not a success line, is logged.
C6_DeleteRemovesFirstMatch ==
    last.op = "delete" =>
        LET pre == last.pre
            Match(k) == Lower(FullName(pre[k])) = Lower(last.arg)
            lines == audit_log.lines
        IN  /\ Len(lines) = Len(last.prelog.lines) + 1
            /\ IF \E k \in 1..Len(pre) : Match(k)
               THEN /\ \E k \in 1..Len(pre) :
                          /\ Match(k)
                          /\ \A j \in 1..(k - 1) : ~Match(j)
                          /\ Len(contacts_list) = Len(pre) - 1
                          /\ \A j \in 1..(k - 1) : contacts_list[j] = pre[j]
                          /\ \A j \in k..Len(contacts_list) : contacts_list[j] = pre[j + 1]
                    /\ lines[Len(lines)] = "Deleted contact"
               ELSE /\ contacts_list = pre
                    /\ lines[Len(lines)] = "Failed to delete contact"

\* A delete has removed the first of two contacts whose names differ only in
\* case, and the second is still listed.
C6_Witness ==
    /\ last.op = "delete"
    /\ last.outcome = "ok"
    /\ \E j, k \in 1..Len(last.pre) :
          /\ j < k
          /\ last.pre[j].first_name # last.pre[k].first_name
          /\ Lower(FullName(last.pre[j])) = Lower(last.arg)
          /\ Lower(FullName(last.pre[k])) = Lower(last.arg)
          /\ last.pre[k] # last.pre[j]
          /\ \E n \in 1..Len(contacts_list) : contacts_list[n] = last.pre[k]

\* C7: batch_delete is best-effort.  Every row is processed, in order: a row
\* removes the first contact equal to it that is still listed, and a row
\* with none left is reported and the next row still runs.  The list shrinks
\* by the number of rows that found a contact, and the batch logs one line.
C7_BatchDeleteBestEffort ==
    (last.op = "batch_delete" /\ last.outcome = "ok") =>
        LET pre == last.pre
            rows == last.arg
            found == last.result
            Earlier(r) == {q \in 1..r : RowEq(rows[q], RowContact(rows[r], 0, 0))}
        IN  /\ Len(found) = Len(rows)
            /\ \A r \in 1..Len(rows) :
                   found[r] <=>
                       CountEq(pre, RowContact(rows[r], 0, 0)) >= Cardinality(Earlier(r))
            /\ contacts_list =
                   Without(pre, {k \in 1..Len(pre) : Rank(pre, k) <= CountRows(rows, pre[k])})
            /\ Len(contacts_list)
                   = Len(pre) - Cardinality({r \in 1..Len(rows) : found[r]})
            /\ audit_log.lines = Append(last.prelog.lines, "Batch deleted contacts")

\* A batch whose first row found nothing and whose second row removed the
\* first of two equal contacts made at different seconds.
C7_Witness ==
    /\ last.op = "batch_delete"
    /\ last.outcome = "ok"
    /\ last.result = <<FALSE, TRUE>>
    /\ \E j, k \in 1..Len(last.pre) :
          /\ j < k
          /\ ContactEq(last.pre[j], last.pre[k])
          /\ last.pre[j].time_created # last.pre[k].time_created
          /\ RowEq(last.arg[2], last.pre[j])
          /\ \E n \in 1..Len(contacts_list) : contacts_list[n] = last.pre[k]

\* C8, as claimed: right after a batch_delete no two listed contacts are
\* equal under Contact.__eq__.
C8_NoDuplicatesAfterBatchDelete ==
    (last.op = "batch_delete" /\ last.outcome = "ok") => ~HasDuplicates(contacts_list)

\* C8, amended: right after a batch_delete two listed contacts are equal
\* exactly when the list before the call held at least two more contacts
\* equal to them than the rows name; a list without duplicates before the
\* call has none after it, and a call that finds no file changes nothing.
C8_DuplicatesOnlyWhereLeftOver ==
    last.op = "batch_delete" =>
        IF last.outcome = "ok"
        THEN /\ HasDuplicates(contacts_list) <=>
                    \E k \in 1..Len(last.pre) :
                        CountEq(last.pre, last.pre[k])
                            - CountRows(last.arg, last.pre[k]) >= 2
             /\ ~HasDuplicates(last.pre) => ~HasDuplicates(contacts_list)
        ELSE contacts_list = last.pre

\* A batch_delete has removed one of three equal contacts and left two.
C8_Witness ==
    /\ last.op = "batch_delete"
    /\ last.outcome = "ok"
    /\ \E r \in 1..Len(last.result) : last.result[r]
    /\ Len(last.pre) = 3
    /\ HasDuplicates(contacts_list)

\* C9: batch_import(rows) followed at once by batch_delete(rows), for
\* well-formed rows of 3 to 5 columns with or without repeats, brings the
\* list back to its size before the import, and no row is reported missing.
C9_ImportDeleteRoundTrip ==
    [][(/\ last.op = "batch_add" /\ last.outcome = "ok"
        /\ last'.op = "batch_delete" /\ last'.outcome = "ok"
        /\ last'.arg = last.arg)
           => /\ Len(contacts_list') = Len(last.pre)
              /\ Len(last'.result) = Len(last.arg)
              /\ \A r \in 1..Len(last'.result) : last'.result[r]]_vars

\* The two calls have run back to back on a repeated row, over a list that
\* already held a contact equal to the row: the log shows the import and
\* then the delete, and the list before the delete ends with the two
\* imported contacts.
C9_Witness ==
    /\ last.op = "batch_delete"
    /\ last.outcome = "ok"
    /\ audit_log.lines = <<"Batch added contacts", "Batch deleted contacts">>
    /\ Len(last.arg) = 2
    /\ last.arg[1] = last.arg[2]
    /\ Len(last.pre) = 3
    /\ \A k \in 1..3 : RowEq(last.arg[1], last.pre[k])
    /\ last.pre[2] = last.pre[3]
    /\ last.pre[1] # last.pre[2]
    /\ Len(contacts_list) = 1

\* C10: no core operation terminates abnormally: in every state reached
\* through add, batch_import of well-formed rows (names may be empty),
\* update, delete, batch_delete and clear_audit_log, each of sort (any mode,
\* 'group' included), search (any query text), delete, update and
\* render_audit_log ends with a reported outcome and raises nothing past the
\* Directory.
C10_NoOperationRaises == last.outcome # "raised"

(***************************************************************************)
(* Searching under a running clock: contacts made at different seconds,    *)
(* queries with no, one and both time bounds.                              *)
(***************************************************************************)
SearchDateInputs ==
    {<<NoDate, NoDate>>, <<0, 0>>, <<MaxTime, MaxTime>>, <<0, MaxTime>>,
     <<MaxTime, NoDate>>, <<NoDate, 0>>}

NextSearch ==
    \/ Tick
    \/ /\ LogRoom(MaxLog)
       /\ \/ \E f \in AddInputs, t2 \in now..MaxTime : add_contact(f, t2)
          \/ \E q \in SearchInputs, d \in SearchDateInputs :
                search_contacts(q, d[1], d[2])
    \/ clear_audit_log

SpecSearch == Init /\ [][NextSearch]_vars

\* The query, already lowered, is found in the first name, the last name,
\* the full name or the phone number of c.
TextMatches(c, q) ==
    \/ re_search(q, Lower(c.first_name))
    \/ re_search(q, Lower(c.last_name))
    \/ re_search(q, Lower(FullName(c)))
    \/ re_search(q, c.phone_number)

\* C11: search never changes contacts and returns the matching contacts in
\* the order of contacts; search("") without time bounds returns every
\* contact, as many as the directory holds; with both start_time and
\* end_time the result is further restricted to start_time <= created_at <=
\* end_time, and with only one of them no time restriction applies.
C11_SearchReturnsMatchesInOrder ==
    last.op = "search" =>
        /\ contacts_list = last.pre
        /\ last.outcome = "ok" =>
               LET q == Lower(last.arg[1])
                   from == last.arg[2]
                   to == last.arg[3]
                   InTime(c) == from <= c.time_created /\ c.time_created <= to
                   ByText == {k \in 1..Len(contacts_list) : TextMatches(contacts_list[k], q)}
                   ByTime == {k \in 1..Len(contacts_list) : InTime(contacts_list[k])}
                   all == 1..Len(contacts_list)
               IN  /\ (from # NoDate /\ to # NoDate) =>
                          last.result = Without(contacts_list, all \ (ByText \cap ByTime))
                   /\ (from = NoDate \/ to = NoDate) =>
                          last.result = Without(contacts_list, all \ ByText)
                   /\ (last.arg[1] = Empty /\ from = NoDate /\ to = NoDate) =>
                          /\ last.result = contacts_list
                          /\ Len(last.result) = Len(contacts_list)

\* A search with both bounds has returned two contacts in list order and
\* left out a third that the text matches but that was made too late.
C11_Witness ==
    /\ last.op = "search"
    /\ last.outcome = "ok"
    /\ last.arg[2] # NoDate /\ last.arg[3] # NoDate
    /\ Len(contacts_list) = 3
    /\ last.result = <<contacts_list[1], contacts_list[2]>>
    /\ contacts_list[1] # contacts_list[2]
    /\ TextMatches(contacts_list[3], Lower(last.arg[1]))
    /\ contacts_list[3].time_created > last.arg[3]

(***************************************************************************)
(* Sorting: contacts that share a last name or only its initial, a last    *)
(* name in lower case and an empty one, and room in the log for two sorts  *)
(* in a row.                                                               *)
(***************************************************************************)
SortAddInputs ==
    AddInputs \cup {<<Al, ab, PhoneOK, Empty, Empty>>,
                    <<ab, Empty, PhoneOK, Empty, Empty>>}

NextSort ==
    \/ /\ LogRoom(MaxLog + 1)
       /\ \/ \E f \in SortAddInputs : add_contact(f, now)
          \/ \E m \in SortInputs : sort_contacts(m)
    \/ clear_audit_log

SpecSort == Init /\ [][NextSort]_vars

\* list is in non-decreasing order of the keys.
InKeyOrder(list, Key(_)) ==
    \A i, j \in 1..Len(list) : i < j => ~StrLess(Key(list[j]), Key(list[i]))

\* The contacts of each key are the same, in the same order, in both lists.
SameOrderPerKey(list, before, Key(_)) ==
    /\ Len(list) = Len(before)
    /\ \A i \in 1..Len(before) :
           SelectSeq(list, LAMBDA c : Key(c) = Key(before[i]))
               = SelectSeq(before, LAMBDA c : Key(c) = Key(before[i]))

LastNameKey(c) == c.last_name

InitialKey(c) == SubSeq(c.last_name, 1, 1)

C12_SortedAndStable ==
    last.op = "sort" =>
        /\ last.arg = "alphabetical" =>
               /\ last.outcome = "ok"
               /\ InKeyOrder(contacts_list, LastNameKey)
               /\ SameOrderPerKey(contacts_list, last.pre, LastNameKey)
        /\ (last.arg = "group" /\ last.outcome = "ok") =>
               /\ InKeyOrder(contacts_list, InitialKey)
               /\ SameOrderPerKey(contacts_list, last.pre, InitialKey)

\* C12: sort('alphabetical') is a stable sort of contacts by last name and
\* is idempotent: it yields the same contacts in non-decreasing order of
\* last name, those of equal last name in their prior order, and a second
\* sort('alphabetical') right after it changes nothing; sort('group') orders
\* by the first character of the last name only and keeps the prior order of
\* the contacts that share an initial.
C12_StableIdempotentSort ==
    /\ []C12_SortedAndStable
    /\ [][(/\ last.op = "sort" /\ last.arg = "alphabetical"
           /\ last'.op = "sort" /\ last'.arg = "alphabetical"
           /\ last' # last)
              => contacts_list' = contacts_list]_vars

\* Two alphabetical sorts have run back to back over three contacts, two of
\* them with the same last name and different first names, the third with
\* another last name of the same initial.
C12_Witness ==
    /\ last.op = "sort"
    /\ last.arg = "alphabetical"
    /\ audit_log.lines
           = <<"Sorted contacts alphabetically", "Sorted contacts alphabetically">>
    /\ Len(contacts_list) = 3
    /\ contacts_list[1].last_name = Ba
    /\ contacts_list[2].last_name = Bo
    /\ contacts_list[3].last_name = Bo
    /\ contacts_list[2].first_name = al
    /\ contacts_list[3].first_name = Al

\* C13: under every interleaving of Contact.update and the directory's
\* update_contact, a contact's history is a gap-free chain: the old snapshot
\* of the first entry is the construction values, the old snapshot of each
\* later entry is the new snapshot of the one before it, and the new
\* snapshot of the last entry is the current field values (the construction
\* values are the current ones while the history is empty), so no change of
\* a field bypasses the history.
C13_HistoryIsGapFreeChain ==
    \A i \in 1..Len(contacts_list) :
        LET c == contacts_list[i]
            h == c.update_history
        IN  IF h = <<>>
            THEN Values(c) = c.g_init
            ELSE /\ h[1].old_values = c.g_init
                 /\ \A k \in 2..Len(h) : h[k].old_values = h[k - 1].new_values
                 /\ h[Len(h)].new_values = Values(c)

====
